---- MODULE Spec2Model ----
(***************************************************************************)
(* A model of the devinfo crate: the depth-first NodeWalk with subtree     *)
(* pruning, the list walkers DriverWalk, PropertyWalk and MinorWalk, the   *)
(* typed Property decoders and Display, Node::string_props, the devlink    *)
(* accumulator behind DevLinks::links_for_path, the owners of the library  *)
(* handles (src/src/lib.rs), and the instance translator                   *)
(* DevInstMinor::lookup_disk_name (src/src/dim.rs).                        *)
(*                                                                         *)
(* The device tree, the property lists, the devlink database and the       *)
(* instance translator are external: they are drawn from bounded sets in   *)
(* the initial states.                                                     *)
(***************************************************************************)
EXTENDS Integers, Sequences, FiniteSets, TLC

\* ------------------------------------------------------------------------
\* Bounds
\* ------------------------------------------------------------------------
MaxNodes == 5
MaxExtraAdvances == 2
MaxRawKind == 7
MaxElems == 2
MaxLinks == 3
MaxLinkKind == 3
MaxName == 3
MaxHandles == 2
MaxProps == 3
MaxList == 2

\* ------------------------------------------------------------------------
\* State
\* ------------------------------------------------------------------------
\* NodeWalk over a snapshot
VARIABLES
    tree,           \* the snapshot behind DevInfo.root
    node,           \* NodeWalk.node
    fin,            \* NodeWalk.fin
    skip_children,  \* NodeWalk.skip_children
    ret,            \* result of the last advance: a node, DI_NODE_NIL for None, -1 before any
    yielded,        \* history: the nodes yielded so far, in order
    skipAt,         \* history: nodes N such that skip_children was called right after N was yielded
    skipIdle,       \* history: walker states without a yielded node in which skip_children was called
    nadv,           \* history: number of advances made
    lastOp,         \* history: the last operation called on the walker
    oserr           \* history: the last advance met a failure of the tree other than "no such node"

walkVars == <<tree, node, fin, skip_children, ret, yielded, skipAt, skipIdle, nadv, lastOp,
              oserr>>

\* a Property view
VARIABLES
    prop,   \* the property behind the Property view
    dec,    \* the decoder called last ("none" before any)
    res     \* what it returned

propVars == <<prop, dec, res>>

\* one call of DevLinks::links_for_path
VARIABLES
    lpath,      \* the path passed to links_for_path, as bytes
    links,      \* the links the database holds for the path, in walk order
    lpc,        \* position in links_for_path / di_devlink_walk / devlink_accumulate
    cur,        \* number of links di_devlink_walk has presented to the callback
    boxes,      \* who holds a Box owning the accumulator
    rawOut,     \* TRUE while the accumulator is owned through the raw pointer arg
    arg,        \* the pointer given to di_devlink_walk
    handedBack, \* the pointers the callback gave back with Box::into_raw
    out,        \* the contents of the accumulator Vec<DevLink>
    frees,      \* number of times the accumulator was freed
    cbRets,     \* the values the callback returned, in order
    walkRet,    \* what di_devlink_walk returned
    lresult     \* what links_for_path returned

linkVars == <<lpath, links, lpc, cur, boxes, rawOut, arg, handedBack, out, frees,
              cbRets, walkRet, lresult>>

\* one call of DevInstMinor::lookup_disk_name
VARIABLES
    dimdb,      \* what di_dim_path_dev resolves each minor of the instance to
    dimDriver,  \* the driver name passed in
    dimInstance,\* the instance passed in, a u32: <<bit 31, bits 0..30>>
    dimState,   \* "idle" or "returned"
    dimAsked,   \* the minors queried, in order
    dimUsed,    \* the candidate the result was made from
    dimRes      \* what lookup_disk_name returned

dimVars == <<dimdb, dimDriver, dimInstance, dimState, dimAsked, dimUsed, dimRes>>

\* the owners of the three library handles: DevInfo, DevLinks, DevInstMinor
VARIABLES
    hCalls,     \* per kind: number of constructor calls made
    hIssued,    \* per kind: the handles the library handed out
    hOwners,    \* per kind: the handle fields of the owners alive
    hReleased,  \* per kind: the handles passed to the release call, in order
    hLast       \* the last operation on an owner and its outcome

handleVars == <<hCalls, hIssued, hOwners, hReleased, hLast>>

\* one call of Node::string_props
VARIABLES
    plist,      \* the properties of the node, in the order di_prop_next gives them
    spState,    \* "idle" or "returned"
    smap        \* the map string_props returned, as a set of entries [k, v]

strVars == <<plist, spState, smap>>

\* a DriverWalk, PropertyWalk or MinorWalk
VARIABLES
    itKind,     \* which of the three walkers it is
    itLen,      \* the number of elements of the list the library walks
    itNul,      \* DriverWalk: the driver name holds a NUL byte
    itCursor,   \* the walker's node, prop or minor field: DI_NODE_NIL or an element
    itFin,      \* the walker's fin field
    itRet,      \* result of the last advance: an element, DI_NODE_NIL for None, -1 before any
    itYielded,  \* history: the elements yielded so far, in order
    itAdv       \* history: number of advances made

iterVars == <<itKind, itLen, itNul, itCursor, itFin, itRet, itYielded, itAdv>>

vars == <<walkVars, propVars, linkVars, dimVars, handleVars, strVars, iterVars>>

\* ------------------------------------------------------------------------
\* The device tree snapshot (external; libdevinfo accessors)
\* ------------------------------------------------------------------------
DI_NODE_NIL == 0

\* A snapshot with n nodes: node 1 is the root, par[i] is the parent of i.
\* The children of a node are linked in increasing order of their number.
\* trunc holds the nodes whose parent was cut off the snapshot; a complete
\* snapshot has none.
Trees ==
    UNION { { [n |-> n, par |-> p, trunc |-> {}] :
                p \in { q \in [1..n -> 0..n] :
                          /\ q[1] = DI_NODE_NIL
                          /\ \A i \in 2..n : q[i] >= 1 /\ q[i] < i } } :
            n \in 1..MaxNodes }

Nodes(t) == 1..t.n

SetMin(S) == CHOOSE x \in S : \A y \in S : x <= y

\* A snapshot that lost the parent of one node below the root.
TruncatedTrees ==
    { [t EXCEPT !.trunc = {x}] : <<t, x>> \in { <<u, y>> \in Trees \X (2..MaxNodes) : y <= u.n } }

di_parent_node(t, n) == IF n \in t.trunc THEN DI_NODE_NIL ELSE t.par[n]

\* errno after di_parent_node(n) returned DI_NODE_NIL: ENXIO at the root of
\* the snapshot, the only case Node::parent takes for "no parent".
di_parent_errno(t, n) == IF t.par[n] = DI_NODE_NIL THEN "ENXIO" ELSE "ENOTSUP"

di_child_node(t, n) ==
    LET cs == { c \in Nodes(t) : t.par[c] = n }
    IN  IF cs = {} THEN DI_NODE_NIL ELSE SetMin(cs)

di_sibling_node(t, n) ==
    LET ss == { c \in Nodes(t) : c > n /\ t.par[c] = t.par[n] /\ t.par[n] # DI_NODE_NIL }
    IN  IF ss = {} THEN DI_NODE_NIL ELSE SetMin(ss)

\* ------------------------------------------------------------------------
\* NodeWalk
\* ------------------------------------------------------------------------
\* A climb that gives up after a single level.
ClimbOneLevel(t, n) ==
    LET p == di_parent_node(t, n)
    IN  IF p = DI_NODE_NIL THEN DI_NODE_NIL ELSE di_sibling_node(t, p)

\* The loop of src/src/lib.rs:190-205: climb until an ancestor has a sibling;
\* DI_NODE_NIL when the root is passed.
RECURSIVE ClimbToSibling(_, _)
ClimbToSibling(t, n) ==
    LET p == di_parent_node(t, n)
    IN  IF p = DI_NODE_NIL
        THEN DI_NODE_NIL
        ELSE LET sib == di_sibling_node(t, p)
             IN  IF sib # DI_NODE_NIL THEN sib ELSE ClimbToSibling(t, p)

\* The node at which the climb of src/src/lib.rs:190-205 got DI_NODE_NIL from
\* di_parent_node; DI_NODE_NIL when the climb found a sibling instead.
RECURSIVE ClimbStop(_, _)
ClimbStop(t, n) ==
    LET p == di_parent_node(t, n)
    IN  IF p = DI_NODE_NIL
        THEN n
        ELSE IF di_sibling_node(t, p) # DI_NODE_NIL
             THEN DI_NODE_NIL
             ELSE ClimbStop(t, p)

\* The climb ended on a DI_NODE_NIL that di_parent_node gave with an errno
\* other than ENXIO.
ClimbFailed(t, n) ==
    LET stop == ClimbStop(t, n)
    IN  stop # DI_NODE_NIL /\ di_parent_errno(t, stop) # "ENXIO"

\* A walker that descends whether or not pruning was requested.
ChildIgnoringSkip(t, n, s) == di_child_node(t, n)

\* The child NodeWalk::next descends to (src/src/lib.rs:154-172): none when
\* pruning was requested.
ChildToVisit(t, n, s) == IF s THEN DI_NODE_NIL ELSE di_child_node(t, n)

\* What an advance returns for Some(Err(_)).
RET_ERR == 0 - 2

\* An advance that restarts at the root once the cursor is back at nil.
NodeWalkStepNoFin(t, n, f, s) ==
    IF n = DI_NODE_NIL
    THEN [node |-> 1, fin |-> f, skip |-> s, ret |-> 1, oserr |-> FALSE]
    ELSE LET child == ChildToVisit(t, n, s)
         IN  IF child # DI_NODE_NIL
             THEN [node |-> child, fin |-> f, skip |-> FALSE, ret |-> child, oserr |-> FALSE]
             ELSE LET sib == di_sibling_node(t, n)
                  IN  IF sib # DI_NODE_NIL
                      THEN [node |-> sib, fin |-> f, skip |-> FALSE, ret |-> sib,
                            oserr |-> FALSE]
                      ELSE LET up == ClimbToSibling(t, n)
                           IN  IF up = DI_NODE_NIL
                               THEN [node |-> DI_NODE_NIL, fin |-> f,
                                     skip |-> FALSE, ret |-> DI_NODE_NIL,
                                     oserr |-> ClimbFailed(t, n)]
                               ELSE [node |-> up, fin |-> f, skip |-> FALSE, ret |-> up,
                                     oserr |-> FALSE]

\* One call of NodeWalk::next on walker state (n, f, s): the new walker state
\* and the value returned (ret = DI_NODE_NIL stands for None; no path of the
\* function returns Some(Err(_))).  oserr tells whether di_parent_node gave
\* DI_NODE_NIL with an errno other than ENXIO during the call.
NodeWalkStep(t, n, f, s) ==
    IF f
    THEN [node |-> n, fin |-> f, skip |-> s, ret |-> DI_NODE_NIL, oserr |-> FALSE]
    ELSE IF n = DI_NODE_NIL
    THEN [node |-> 1, fin |-> f, skip |-> s, ret |-> 1, oserr |-> FALSE]
    ELSE LET child == ChildToVisit(t, n, s)
         IN  IF child # DI_NODE_NIL
             THEN [node |-> child, fin |-> f, skip |-> FALSE, ret |-> child, oserr |-> FALSE]
             ELSE LET sib == di_sibling_node(t, n)
                  IN  IF sib # DI_NODE_NIL
                      THEN [node |-> sib, fin |-> f, skip |-> FALSE, ret |-> sib,
                            oserr |-> FALSE]
                      ELSE LET up == ClimbToSibling(t, n)
                           IN  IF up = DI_NODE_NIL
                               THEN [node |-> DI_NODE_NIL, fin |-> TRUE,
                                     skip |-> FALSE, ret |-> DI_NODE_NIL,
                                     oserr |-> ClimbFailed(t, n)]
                               ELSE [node |-> up, fin |-> f, skip |-> FALSE, ret |-> up,
                                     oserr |-> FALSE]

WalkInit ==
    /\ tree \in Trees
    /\ node = DI_NODE_NIL
    /\ fin = FALSE
    /\ skip_children = FALSE
    /\ ret = 0 - 1
    /\ yielded = <<>>
    /\ skipAt = {}
    /\ skipIdle = {}
    /\ nadv = 0
    /\ lastOp = "none"
    /\ oserr = FALSE

NodeWalk_next ==
    /\ nadv < tree.n + 1 + MaxExtraAdvances
    /\ LET r == NodeWalkStep(tree, node, fin, skip_children)
       IN  /\ node' = r.node
           /\ fin' = r.fin
           /\ skip_children' = r.skip
           /\ ret' = r.ret
           /\ yielded' = IF r.ret # DI_NODE_NIL THEN Append(yielded, r.ret) ELSE yielded
           /\ oserr' = r.oserr
    /\ nadv' = nadv + 1
    /\ lastOp' = "next"
    /\ UNCHANGED <<tree, skipAt, skipIdle>>
    /\ UNCHANGED <<propVars, linkVars, dimVars, handleVars, strVars, iterVars>>

NodeWalk_skip_children ==
    /\ skip_children' = TRUE
    /\ IF fin
       THEN skipIdle' = skipIdle \cup {"finished"} /\ UNCHANGED skipAt
       ELSE IF node = DI_NODE_NIL
       THEN skipIdle' = skipIdle \cup {"not-started"} /\ UNCHANGED skipAt
       ELSE skipAt' = skipAt \cup {node} /\ UNCHANGED skipIdle
    /\ lastOp' = "skip_children"
    /\ UNCHANGED <<tree, node, fin, ret, yielded, nadv, oserr>>
    /\ UNCHANGED <<propVars, linkVars, dimVars, handleVars, strVars, iterVars>>

\* A walker over a snapshot that was truncated.
WalkTruncInit ==
    /\ tree \in TruncatedTrees
    /\ node = DI_NODE_NIL
    /\ fin = FALSE
    /\ skip_children = FALSE
    /\ ret = 0 - 1
    /\ yielded = <<>>
    /\ skipAt = {}
    /\ skipIdle = {}
    /\ nadv = 0
    /\ lastOp = "none"
    /\ oserr = FALSE

WalkIdle ==
    /\ tree = [n |-> 1, par |-> <<DI_NODE_NIL>>, trunc |-> {}]
    /\ node = DI_NODE_NIL
    /\ fin = FALSE
    /\ skip_children = FALSE
    /\ ret = 0 - 1
    /\ yielded = <<>>
    /\ skipAt = {}
    /\ skipIdle = {}
    /\ nadv = 0
    /\ lastOp = "none"
    /\ oserr = FALSE

\* ------------------------------------------------------------------------
\* Property and its decoders
\* ------------------------------------------------------------------------
DI_PROP_TYPE_BOOLEAN == 0
DI_PROP_TYPE_INT == 1
DI_PROP_TYPE_STRING == 2
DI_PROP_TYPE_BYTE == 3
DI_PROP_TYPE_UNKNOWN == 4
DI_PROP_TYPE_UNDEF_IT == 5
DI_PROP_TYPE_INT64 == 6

\* the raw kind codes di_prop_type is taken to report: the seven kinds and
\* the codes just outside them
RawKinds == (0 - 1)..MaxRawKind

\* PropType::try_from (derived by TryFromPrimitive): "Err" for a code that is
\* no discriminant of the enum
PropType_try_from(raw) ==
    CASE raw = DI_PROP_TYPE_BOOLEAN  -> "Boolean"
      [] raw = DI_PROP_TYPE_INT      -> "Int32"
      [] raw = DI_PROP_TYPE_STRING   -> "String"
      [] raw = DI_PROP_TYPE_BYTE     -> "Byte"
      [] raw = DI_PROP_TYPE_UNKNOWN  -> "Unknown"
      [] raw = DI_PROP_TYPE_UNDEF_IT -> "Undefined"
      [] raw = DI_PROP_TYPE_INT64    -> "Int64"
      [] OTHER -> "Err"

I32_MAX == 2147483647
I32_MIN == (0 - I32_MAX) - 1

\* An i32 is kept as its 32 bits and an i64 as its 64 bits, least significant
\* first, in two's complement.
I32Bits(v) == [i \in 1..32 |-> IF i = 32 THEN (IF v < 0 THEN 1 ELSE 0)
                               ELSE (v \div (2 ^ (i - 1))) % 2]

I64Bits(v) == [i \in 1..64 |-> IF i >= 32 THEN (IF v < 0 THEN 1 ELSE 0)
                               ELSE (v \div (2 ^ (i - 1))) % 2]

I32Samples == { I32Bits(v) : v \in {I32_MIN, 0 - 1, 0, 1, I32_MAX} }

\* the last sample is outside the i32 range
I64Samples == { I64Bits(v) : v \in {I32_MIN, 0 - 1, 0, 1, I32_MAX} } \cup
              { [i \in 1..64 |-> IF i = 41 THEN 1 ELSE 0] }

\* a cast that fills the upper half with zeroes
ZeroExtend(b) == [i \in 1..64 |-> IF i <= 32 THEN b[i] ELSE 0]

\* `n as i64` for an i32 n (src/src/lib.rs:385): the low 32 bits are kept and
\* the sign bit is copied into the upper 32
CastI32ToI64(b) == [i \in 1..64 |-> IF i <= 32 THEN b[i] ELSE b[32]]

\* C strings are sequences of non-zero bytes
StrSamples == { <<>>, <<97>>, <<97, 98>>, <<195, 169>>, <<226, 130, 172>>,
                <<255>>, <<195>>, <<97, 128>>, <<192, 175>>, <<237, 160, 128>> }

ByteSamples == { <<0>>, <<255>> }

IsCont(b) == b >= 128 /\ b <= 191

RECURSIVE Utf8Valid(_)
\* CStr::to_str: UTF-8 validation of the bytes
Utf8Valid(b) ==
    IF b = <<>> THEN TRUE
    ELSE LET c == b[1]
             n == Len(b)
         IN  IF c < 128 THEN Utf8Valid(Tail(b))
             ELSE IF c >= 194 /\ c <= 223
             THEN n >= 2 /\ IsCont(b[2]) /\ Utf8Valid(SubSeq(b, 3, n))
             ELSE IF c >= 224 /\ c <= 239
             THEN /\ n >= 3 /\ IsCont(b[2]) /\ IsCont(b[3])
                  /\ (c = 224 => b[2] >= 160)
                  /\ (c = 237 => b[2] <= 159)
                  /\ Utf8Valid(SubSeq(b, 4, n))
             ELSE IF c >= 240 /\ c <= 244
             THEN /\ n >= 4 /\ IsCont(b[2]) /\ IsCont(b[3]) /\ IsCont(b[4])
                  /\ (c = 240 => b[2] >= 144)
                  /\ (c = 244 => b[2] <= 143)
                  /\ Utf8Valid(SubSeq(b, 5, n))
             ELSE FALSE

\* The payload the accessor of a kind hands out: n is the element count it
\* returns (negative on failure) and data the elements behind the pointer it
\* sets (none when n < 1: the pointer is left null).  Every element is a
\* sequence: the bits of an integer, the bytes of a string, one byte.
Payloads(S) ==
    { [n |-> k, data |-> <<>>] : k \in (0 - 1)..0 } \cup
    UNION { { [n |-> k, data |-> d] : d \in [1..k -> S] } : k \in 1..MaxElems }

ElemsOf(k) ==
    IF k = DI_PROP_TYPE_INT THEN I32Samples
    ELSE IF k = DI_PROP_TYPE_INT64 THEN I64Samples
    ELSE IF k = DI_PROP_TYPE_STRING THEN StrSamples
    ELSE ByteSamples

Props ==
    UNION { IF k \in {DI_PROP_TYPE_INT, DI_PROP_TYPE_INT64, DI_PROP_TYPE_STRING,
                      DI_PROP_TYPE_BYTE}
            THEN { [type |-> k, n |-> pl.n, data |-> pl.data] : pl \in Payloads(ElemsOf(k)) }
            ELSE { [type |-> k, n |-> 0, data |-> <<>>] } :
            k \in RawKinds }

None == [tag |-> "None", v |-> <<>>]
Some(x) == [tag |-> "Some", v |-> x]
Panic == [tag |-> "panic", v |-> <<>>]

\* Property::value_type; "panic" when the unwrap fails
value_type(p) ==
    LET k == PropType_try_from(p.type)
    IN  IF k = "Err" THEN "panic" ELSE k

as_i32(p) ==
    IF value_type(p) = "panic" THEN Panic
    ELSE IF value_type(p) = "Int32"
    THEN (IF p.n >= 1 THEN Some(p.data[1]) ELSE None)
    ELSE None

\* a decoder that widens by zero extension
as_i64_zero_extend(p) ==
    IF value_type(p) = "panic" THEN Panic
    ELSE IF value_type(p) = "Int64"
    THEN (IF p.n >= 1 THEN Some(p.data[1]) ELSE None)
    ELSE IF value_type(p) = "Int32"
    THEN (IF as_i32(p).tag = "Some" THEN Some(ZeroExtend(as_i32(p).v)) ELSE as_i32(p))
    ELSE None

as_i64(p) ==
    IF value_type(p) = "panic" THEN Panic
    ELSE IF value_type(p) = "Int64"
    THEN (IF p.n >= 1 THEN Some(p.data[1]) ELSE None)
    ELSE IF value_type(p) = "Int32"
    THEN (IF as_i32(p).tag = "Some" THEN Some(CastI32ToI64(as_i32(p).v)) ELSE as_i32(p))
    ELSE None

as_cstr(p) ==
    IF value_type(p) = "panic" THEN Panic
    ELSE IF value_type(p) = "String"
    THEN (IF p.n >= 1 THEN Some(p.data[1]) ELSE None)
    ELSE None

to_str(p) ==
    LET c == as_cstr(p)
    IN  IF c.tag # "Some" THEN c
        ELSE IF Utf8Valid(c.v) THEN Some(c.v) ELSE None

\* the n bytes behind the data pointer
BytesOf(p) == [i \in 1..p.n |-> p.data[i][1]]

\* as_bytes hands out a set of outcomes: with a count of 0 the accessor leaves
\* the data pointer null and slice::from_raw_parts(null, 0) is undefined
\* behaviour (an empty slice, or the precondition check fails).
as_bytes(p) ==
    IF value_type(p) = "panic" THEN {Panic}
    ELSE IF value_type(p) = "Byte"
    THEN (IF p.n >= 1 THEN {Some(BytesOf(p))}
          ELSE IF p.n = 0 THEN {Some(<<>>), Panic}
          ELSE {None})
    ELSE {None}

\* --- Display for Property ---
\* The decimal digits of an integer kept as bits.  The bits are read in
\* limbs of 16 and the number is built in base 10000, least significant
\* first, so that no intermediate value exceeds 32 bits.
RECURSIVE Limb16(_, _, _)
Limb16(b, j, k) == IF k = 0 THEN 0 ELSE b[16 * j + k] * (2 ^ (k - 1)) + Limb16(b, j, k - 1)

\* d * m + c in base 10000
RECURSIVE MulAdd(_, _, _)
MulAdd(d, m, c) ==
    IF d = <<>>
    THEN (IF c = 0 THEN <<>> ELSE <<c % 10000>> \o MulAdd(<<>>, m, c \div 10000))
    ELSE LET x == d[1] * m + c
         IN  <<x % 10000>> \o MulAdd(Tail(d), m, x \div 10000)

\* the number the limbs j.. of b make, in base 10000
RECURSIVE Base10k(_, _)
Base10k(b, j) ==
    IF 16 * j >= Len(b) THEN <<>>
    ELSE MulAdd(Base10k(b, j + 1), 65536, Limb16(b, j, 16))

IsZero(b) == \A i \in 1..Len(b) : b[i] = 0

\* b + 1 from bit i on, the lower bits being all ones
RECURSIVE Carry(_, _)
Carry(b, i) == IF i = 1 THEN 1 ELSE (IF b[i - 1] = 1 THEN Carry(b, i - 1) ELSE 0)

\* the magnitude of a negative pattern: every bit inverted, plus one
Magnitude(b) ==
    LET inv == [i \in 1..Len(b) |-> 1 - b[i]]
    IN  [i \in 1..Len(b) |-> (inv[i] + Carry(inv, i)) % 2]

Pad4(v) ==
    <<48 + (v \div 1000), 48 + ((v \div 100) % 10), 48 + ((v \div 10) % 10), 48 + (v % 10)>>

Unpadded(v) ==
    IF v >= 1000 THEN Pad4(v)
    ELSE IF v >= 100 THEN SubSeq(Pad4(v), 2, 4)
    ELSE IF v >= 10 THEN SubSeq(Pad4(v), 3, 4)
    ELSE SubSeq(Pad4(v), 4, 4)

RECURSIVE PaddedFrom(_, _)
PaddedFrom(d, i) == IF i = 0 THEN <<>> ELSE Pad4(d[i]) \o PaddedFrom(d, i - 1)

\* the digits of a non-zero unsigned pattern as text, most significant first
Digits(b) ==
    LET d == Base10k(b, 0)
    IN  Unpadded(d[Len(d)]) \o PaddedFrom(d, Len(d) - 1)

\* write!(f, "{}", n) for a signed integer n
Decimal(b) ==
    IF IsZero(b) THEN <<48>>
    ELSE IF b[Len(b)] = 1 THEN <<45>> \o Digits(Magnitude(b))
    ELSE Digits(b)

\* "<?Property>"
UNKNOWN_TEXT == <<60, 63, 80, 114, 111, 112, 101, 114, 116, 121, 62>>

\* Option::unwrap
Unwrap(o) == IF o.tag = "Some" THEN o ELSE Panic

\* <Property as Display>::fmt: the text written, or a panic of one of its
\* unwraps
fmt(p) ==
    IF value_type(p) = "panic" THEN Panic
    ELSE IF value_type(p) = "Int32"
    THEN (IF Unwrap(as_i32(p)).tag = "Some" THEN Some(Decimal(as_i32(p).v)) ELSE Panic)
    ELSE IF value_type(p) = "Int64"
    THEN (IF Unwrap(as_i64(p)).tag = "Some" THEN Some(Decimal(as_i64(p).v)) ELSE Panic)
    ELSE IF value_type(p) = "String"
    THEN (IF Unwrap(as_cstr(p)).tag = "Some"
          THEN (IF Utf8Valid(as_cstr(p).v) THEN Some(as_cstr(p).v) ELSE Panic)
          ELSE Panic)
    ELSE Some(UNKNOWN_TEXT)

PropInit ==
    /\ prop \in Props
    /\ dec = "none"
    /\ res = None

PropIdle ==
    /\ prop = [type |-> DI_PROP_TYPE_BOOLEAN, n |-> 0, data |-> <<>>]
    /\ dec = "none"
    /\ res = None

Property_as_i32 ==
    /\ res.tag # "panic"
    /\ dec' = "as_i32"
    /\ res' = as_i32(prop)
    /\ UNCHANGED prop
    /\ UNCHANGED <<walkVars, linkVars, dimVars, handleVars, strVars, iterVars>>

Property_as_i64 ==
    /\ res.tag # "panic"
    /\ dec' = "as_i64"
    /\ res' = as_i64(prop)
    /\ UNCHANGED prop
    /\ UNCHANGED <<walkVars, linkVars, dimVars, handleVars, strVars, iterVars>>

Property_as_cstr ==
    /\ res.tag # "panic"
    /\ dec' = "as_cstr"
    /\ res' = as_cstr(prop)
    /\ UNCHANGED prop
    /\ UNCHANGED <<walkVars, linkVars, dimVars, handleVars, strVars, iterVars>>

Property_to_str ==
    /\ res.tag # "panic"
    /\ dec' = "to_str"
    /\ res' = to_str(prop)
    /\ UNCHANGED prop
    /\ UNCHANGED <<walkVars, linkVars, dimVars, handleVars, strVars, iterVars>>

Property_as_bytes ==
    /\ res.tag # "panic"
    /\ dec' = "as_bytes"
    /\ res' \in as_bytes(prop)
    /\ UNCHANGED prop
    /\ UNCHANGED <<walkVars, linkVars, dimVars, handleVars, strVars, iterVars>>

\* format!("{}", property)
Property_fmt ==
    /\ res.tag # "panic"
    /\ dec' = "fmt"
    /\ res' = fmt(prop)
    /\ UNCHANGED prop
    /\ UNCHANGED <<walkVars, linkVars, dimVars, handleVars, strVars, iterVars>>

\* ------------------------------------------------------------------------
\* DevLinks::links_for_path and the devlink_accumulate callback
\* ------------------------------------------------------------------------
DI_PRIMARY_LINK == 1
DI_SECONDARY_LINK == 2
DI_WALK_CONTINUE == 0

NULL == "<null>"

\* what di_devlink_path, di_devlink_content and di_devlink_type report for a link
LinkSamples ==
    { [path |-> "/dev/dsk/c0", content |-> "../devices/disk@0:a", ltype |-> DI_PRIMARY_LINK],
      [path |-> "/dev/rdsk/c0", content |-> "../devices/disk@0:a,raw", ltype |-> DI_SECONDARY_LINK],
      [path |-> NULL, content |-> "../devices/disk@0:a", ltype |-> DI_PRIMARY_LINK],
      [path |-> "/dev/dsk/c0", content |-> NULL, ltype |-> DI_SECONDARY_LINK] } \cup
    { [path |-> "/dev/dsk/c0", content |-> "../devices/disk@0:a", ltype |-> k] :
        k \in {0} \cup ((DI_SECONDARY_LINK + 1)..MaxLinkKind) }

\* the paths asked about: "/", and a path with an interior NUL
LinkPaths == { <<47>>, <<47, 0, 47>> }

LinkSeqs == UNION { [1..k -> LinkSamples] : k \in 0..MaxLinks }

ACC == "accumulator"

\* CString::new fails on an interior NUL
CString_new_ok(s) == \A i \in 1..Len(s) : s[i] # 0

\* a callback that lets a link through without looking at its kind
RejectsIgnoringKind(l) == l.path = NULL \/ l.content = NULL

\* src/src/lib.rs:564-566
Rejects(l) ==
    \/ l.path = NULL
    \/ l.content = NULL
    \/ (l.ltype # DI_PRIMARY_LINK /\ l.ltype # DI_SECONDARY_LINK)

\* src/src/lib.rs:583-587; "panic" for the last arm
LinkTypeOf(ltype) ==
    CASE ltype = DI_PRIMARY_LINK -> "Primary"
      [] ltype = DI_SECONDARY_LINK -> "Secondary"
      [] OTHER -> "panic"

\* an accumulator that stores the target as the path and the path as the target
MakeDevLinkSwapped(l) ==
    [path |-> l.content, content |-> l.path, linktype |-> LinkTypeOf(l.ltype)]

\* src/src/lib.rs:576-588
MakeDevLink(l) ==
    [path |-> l.path, content |-> l.content, linktype |-> LinkTypeOf(l.ltype)]

\* a callback that lets its Box go out of scope instead of leaking it back
DropInCallback(b, f, a) ==
    [boxes |-> b \ {"callback"}, rawOut |-> FALSE, frees |-> f + 1, ptr |-> a]

\* src/src/lib.rs:589: Box::into_raw(out) at the end of the callback, for the
\* Box made from the pointer a
HandBack(b, f, a) ==
    [boxes |-> b \ {"callback"}, rawOut |-> TRUE, frees |-> f, ptr |-> a]

\* a caller that returns whatever was accumulated
ResultIgnoringStatus(r, o) == [tag |-> "Ok", v |-> o]

\* src/src/lib.rs:635-640
ResultOf(r, o) ==
    IF r # 0 THEN [tag |-> "Err", v |-> <<>>] ELSE [tag |-> "Ok", v |-> o]

LinksInit ==
    /\ lpath \in LinkPaths
    /\ links \in LinkSeqs
    /\ lpc = "idle"
    /\ cur = 0
    /\ boxes = {}
    /\ rawOut = FALSE
    /\ arg = NULL
    /\ handedBack = {}
    /\ out = <<>>
    /\ frees = 0
    /\ cbRets = <<>>
    /\ walkRet = 0
    /\ lresult = [tag |-> "none", v |-> <<>>]

LinksIdle ==
    /\ lpath = <<47>>
    /\ links = <<>>
    /\ lpc = "idle"
    /\ cur = 0
    /\ boxes = {}
    /\ rawOut = FALSE
    /\ arg = NULL
    /\ handedBack = {}
    /\ out = <<>>
    /\ frees = 0
    /\ cbRets = <<>>
    /\ walkRet = 0
    /\ lresult = [tag |-> "none", v |-> <<>>]

\* src/src/lib.rs:615: the caller allocates the accumulator
links_for_path_alloc ==
    /\ lpc = "idle"
    /\ lpc' = "allocated"
    /\ boxes' = {"caller"}
    /\ UNCHANGED <<lpath, links, cur, rawOut, arg, handedBack, out, frees, cbRets, walkRet, lresult>>
    /\ UNCHANGED <<walkVars, propVars, dimVars, handleVars, strVars, iterVars>>

\* src/src/lib.rs:616-628: Box::into_raw, the CString for the path (its unwrap
\* panics on an interior NUL, after the Box was turned into the raw pointer)
\* and the call of di_devlink_walk
links_for_path_walk ==
    /\ lpc = "allocated"
    /\ lpc' = IF CString_new_ok(lpath) THEN "walk" ELSE "panicked"
    /\ boxes' = boxes \ {"caller"}
    /\ rawOut' = TRUE
    /\ arg' = ACC
    /\ UNCHANGED <<lpath, links, cur, handedBack, out, frees, cbRets, walkRet, lresult>>
    /\ UNCHANGED <<walkVars, propVars, dimVars, handleVars, strVars, iterVars>>

\* di_devlink_walk presents the next link to the callback
di_devlink_walk_present ==
    /\ lpc = "walk"
    /\ cur < Len(links)
    /\ cur' = cur + 1
    /\ lpc' = "callback"
    /\ UNCHANGED <<lpath, links, boxes, rawOut, arg, handedBack, out, frees, cbRets, walkRet, lresult>>
    /\ UNCHANGED <<walkVars, propVars, dimVars, handleVars, strVars, iterVars>>

\* src/src/lib.rs:561-574: the callback inspects the link and either returns
\* or takes the accumulator back with Box::from_raw
devlink_accumulate_enter ==
    /\ lpc = "callback"
    /\ IF Rejects(links[cur])
       THEN /\ lpc' = "walk"
            /\ cbRets' = Append(cbRets, DI_WALK_CONTINUE)
            /\ UNCHANGED <<boxes, rawOut>>
       ELSE /\ lpc' = "callback_owns"
            /\ boxes' = boxes \cup {"callback"}
            /\ rawOut' = FALSE
            /\ UNCHANGED cbRets
    /\ UNCHANGED <<lpath, links, cur, arg, handedBack, out, frees, walkRet, lresult>>
    /\ UNCHANGED <<walkVars, propVars, dimVars, handleVars, strVars, iterVars>>

\* src/src/lib.rs:576-591: push, Box::into_raw, the pointer assertion, return.
\* A panic in a callback called from C aborts the process.
devlink_accumulate_push ==
    /\ lpc = "callback_owns"
    /\ LET dl == MakeDevLink(links[cur])
           hb == HandBack(boxes, frees, arg)
       IN  IF dl.linktype = "panic"
           THEN /\ lpc' = "aborted"
                /\ UNCHANGED <<boxes, rawOut, frees, handedBack, out, cbRets>>
           ELSE /\ out' = Append(out, dl)
                /\ boxes' = hb.boxes
                /\ rawOut' = hb.rawOut
                /\ frees' = hb.frees
                /\ handedBack' = handedBack \cup {hb.ptr}
                /\ IF hb.ptr = arg
                   THEN lpc' = "walk" /\ cbRets' = Append(cbRets, DI_WALK_CONTINUE)
                   ELSE lpc' = "aborted" /\ UNCHANGED cbRets
    /\ UNCHANGED <<lpath, links, cur, arg, walkRet, lresult>>
    /\ UNCHANGED <<walkVars, propVars, dimVars, handleVars, strVars, iterVars>>

\* di_devlink_walk returns: 0 after the last link, or a failure at any point
di_devlink_walk_return ==
    /\ lpc = "walk"
    /\ \E r \in {0, 0 - 1} :
          /\ (r = 0 => cur = Len(links))
          /\ walkRet' = r
    /\ lpc' = "returned"
    /\ UNCHANGED <<lpath, links, cur, boxes, rawOut, arg, handedBack, out, frees, cbRets, lresult>>
    /\ UNCHANGED <<walkVars, propVars, dimVars, handleVars, strVars, iterVars>>

\* src/src/lib.rs:633: Box::from_raw(arg)
links_for_path_reclaim ==
    /\ lpc = "returned"
    /\ lpc' = "reclaimed"
    /\ boxes' = boxes \cup {"caller"}
    /\ rawOut' = FALSE
    /\ UNCHANGED <<lpath, links, cur, arg, handedBack, out, frees, cbRets, walkRet, lresult>>
    /\ UNCHANGED <<walkVars, propVars, dimVars, handleVars, strVars, iterVars>>

\* src/src/lib.rs:635-641: the status check and the return; out is dropped
links_for_path_return ==
    /\ lpc = "reclaimed"
    /\ lpc' = "done"
    /\ lresult' = ResultOf(walkRet, out)
    /\ boxes' = boxes \ {"caller"}
    /\ frees' = frees + 1
    /\ UNCHANGED <<lpath, links, cur, rawOut, arg, handedBack, out, cbRets, walkRet>>
    /\ UNCHANGED <<walkVars, propVars, dimVars, handleVars, strVars, iterVars>>

\* ------------------------------------------------------------------------
\* DevInstMinor::lookup_disk_name
\* ------------------------------------------------------------------------
\* strings are sequences of bytes
DEV_DSK == <<47, 100, 101, 118, 47, 100, 115, 107, 47>>        \* "/dev/dsk/"
DEV_RDSK == <<47, 100, 101, 118, 47, 114, 100, 115, 107, 47>>  \* "/dev/rdsk/"
S0 == <<115, 48>>                                              \* "s0"
NO_PATH == <<0>>                                               \* di_dim_path_dev returned NULL

\* the candidate minors, src/src/dim.rs:73
Candidates == <<"wd", "a">>

\* disk names over the letters c and s and the digit 0, and one that is not text
NameBytes == {99, 115, 48}
DiskNames == UNION { [1..k -> NameBytes] : k \in 0..MaxName } \cup { <<99, 255>> }

DimPaths == {NO_PATH} \cup { DEV_DSK \o nm : nm \in DiskNames }
                      \cup { DEV_RDSK \o <<99, 48>>, <<99, 48>> }

\* the drivers asked for: "sd", and a name with an interior NUL
Drivers == { <<115, 100>>, <<115, 0, 100>> }

HasPrefix(s, p) == Len(s) >= Len(p) /\ SubSeq(s, 1, Len(p)) = p
HasSuffix(s, x) == Len(s) >= Len(x) /\ SubSeq(s, Len(s) - Len(x) + 1, Len(s)) = x

\* str::strip_prefix and str::strip_suffix on a string that has the affix
strip_prefix(s, p) == SubSeq(s, Len(p) + 1, Len(s))
strip_suffix(s, x) == SubSeq(s, 1, Len(s) - Len(x))

\* a translator that strips the slice only for the "a" minor
DiskNameFromLegacyOnly(minor, nam) ==
    IF minor = "a" /\ HasSuffix(nam, S0) THEN strip_suffix(nam, S0) ELSE nam

\* src/src/dim.rs:97-104: the name returned for the path of a candidate
DiskNameFrom(minor, nam) ==
    IF HasSuffix(nam, S0) THEN strip_suffix(nam, S0) ELSE nam

RECURSIVE LookupFrom(_, _, _)
\* src/src/dim.rs:73-110: the loop over the candidates from index i on, with
\* the minors queried so far; db[minor] is what di_dim_path_dev returns
LookupFrom(db, i, asked) ==
    IF i > Len(Candidates)
    THEN [res |-> None, asked |-> asked, used |-> "none"]
    ELSE LET minor == Candidates[i]
             path == db[minor]
             asked2 == Append(asked, minor)
         IN  IF path = NO_PATH
             THEN LookupFrom(db, i + 1, asked2)
             ELSE IF ~(Utf8Valid(path) /\ HasPrefix(path, DEV_DSK))
             THEN LookupFrom(db, i + 1, asked2)
             ELSE [res |-> Some(DiskNameFrom(minor, strip_prefix(path, DEV_DSK))),
                   asked |-> asked2, used |-> minor]

\* u32 instances as <<bit 31, bits 0..30>>; the last is 2^31
U32Samples == { <<0, 0>>, <<0, 1>>, <<0, I32_MAX>>, <<1, 0>> }

\* instance.try_into() to the c_int di_dim_path_dev takes
TryIntoI32_ok(u) == u[1] = 0

\* src/src/dim.rs:67-111; the unwrap at dim.rs:80 panics in the first round
\* of the loop, before anything is queried
lookup_disk_name(db, driver, instance) ==
    IF ~CString_new_ok(driver)
    THEN [res |-> None, asked |-> <<>>, used |-> "none"]
    ELSE IF ~TryIntoI32_ok(instance)
    THEN [res |-> Panic, asked |-> <<>>, used |-> "none"]
    ELSE LookupFrom(db, 1, <<>>)

DimInit ==
    /\ dimdb \in [{"wd", "a"} -> DimPaths]
    /\ dimDriver \in Drivers
    /\ dimInstance \in U32Samples
    /\ dimState = "idle"
    /\ dimAsked = <<>>
    /\ dimUsed = "none"
    /\ dimRes = None

DimIdle ==
    /\ dimdb = [m \in {"wd", "a"} |-> NO_PATH]
    /\ dimDriver = <<115, 100>>
    /\ dimInstance = <<0, 0>>
    /\ dimState = "idle"
    /\ dimAsked = <<>>
    /\ dimUsed = "none"
    /\ dimRes = None

DevInstMinor_lookup_disk_name ==
    /\ dimRes.tag # "panic"
    /\ LET r == lookup_disk_name(dimdb, dimDriver, dimInstance)
       IN  /\ dimRes' = r.res
           /\ dimAsked' = r.asked
           /\ dimUsed' = r.used
    /\ dimState' = "returned"
    /\ UNCHANGED <<dimdb, dimDriver, dimInstance>>
    /\ UNCHANGED <<walkVars, propVars, linkVars, handleVars, strVars, iterVars>>

\* ------------------------------------------------------------------------
\* Owners of library handles: DevInfo, DevLinks, DevInstMinor
\* ------------------------------------------------------------------------
Kinds == {"DevInfo", "DevLinks", "DevInstMinor"}

DI_LINK_NIL == 0

\* the null pointer di_dim_init returns on failure
DI_DIM_NIL == 0

\* what di_init, di_devlink_init or di_dim_init may return at a call: a fresh
\* handle, or nil on failure
InitOutcomes(k) == {0, hCalls[k] + 1}

Ok(h) == [tag |-> "Ok", v |-> h]
Err == [tag |-> "Err", v |-> 0]

\* DevInfo::new_common after di_init returned root
DevInfo_new_common(root) == IF root = DI_NODE_NIL THEN Err ELSE Ok(root)

\* A constructor that wraps whatever the library returned.
DevLinks_new_unchecked(handle) == Ok(handle)

\* DevLinks::new_common after di_devlink_init returned handle
DevLinks_new_common(handle) == IF handle = DI_LINK_NIL THEN Err ELSE Ok(handle)

\* DevInstMinor::new after di_dim_init returned handle
DevInstMinor_new_common(handle) == IF handle = DI_DIM_NIL THEN Err ELSE Ok(handle)

HandlesInit ==
    /\ hCalls = [k \in Kinds |-> 0]
    /\ hIssued = [k \in Kinds |-> {}]
    /\ hOwners = [k \in Kinds |-> {}]
    /\ hReleased = [k \in Kinds |-> <<>>]
    /\ hLast = [op |-> "none", kind |-> "none", lib |-> "none", tag |-> "none"]

HandlesIdle ==
    /\ hCalls = [k \in Kinds |-> 0]
    /\ hIssued = [k \in Kinds |-> {}]
    /\ hOwners = [k \in Kinds |-> {}]
    /\ hReleased = [k \in Kinds |-> <<>>]
    /\ hLast = [op |-> "none", kind |-> "none", lib |-> "none", tag |-> "none"]

\* a constructor call on kind k: h is what the library returned (0 also when
\* it was not called) and r what the constructor made of it
Construct(k, h, r) ==
    /\ hCalls[k] < MaxHandles
    /\ hCalls' = [hCalls EXCEPT ![k] = @ + 1]
    /\ hIssued' = IF h # 0 THEN [hIssued EXCEPT ![k] = @ \cup {h}] ELSE hIssued
    /\ hOwners' = IF r.tag = "Ok" THEN [hOwners EXCEPT ![k] = @ \cup {r.v}] ELSE hOwners
    /\ hLast' = [op |-> "new", kind |-> k, tag |-> r.tag,
                 lib |-> IF r.tag = "panic" THEN "none" ELSE IF h = 0 THEN "nil" ELSE "handle"]
    /\ UNCHANGED hReleased
    /\ UNCHANGED <<walkVars, propVars, linkVars, dimVars, strVars, iterVars>>

DevInfo_new ==
    \/ \E h \in InitOutcomes("DevInfo") : Construct("DevInfo", h, DevInfo_new_common(h))
    \* a path that holds a NUL byte: the unwrap of CString::new panics before
    \* di_init is called
    \/ Construct("DevInfo", 0, Panic)

DevLinks_new == \E h \in InitOutcomes("DevLinks") : Construct("DevLinks", h, DevLinks_new_common(h))

DevInstMinor_new ==
    \E h \in InitOutcomes("DevInstMinor") :
        Construct("DevInstMinor", h, DevInstMinor_new_common(h))

\* the owner holding h goes out of scope: Drop::drop passes its handle to the
\* release call; tag is "panic" when the drop panicked after the call
Release(k, h, tag) ==
    /\ h \in hOwners[k]
    /\ hOwners' = [hOwners EXCEPT ![k] = @ \ {h}]
    /\ hReleased' = [hReleased EXCEPT ![k] = Append(@, h)]
    /\ hLast' = [op |-> "drop", kind |-> k, lib |-> "none", tag |-> tag]
    /\ UNCHANGED <<hCalls, hIssued>>
    /\ UNCHANGED <<walkVars, propVars, linkVars, dimVars, strVars, iterVars>>

\* Drop for DevInfo: di_fini(self.root)
DevInfo_drop == \E h \in hOwners["DevInfo"] : Release("DevInfo", h, "Ok")

\* Drop for DevLinks: assert_eq!(di_devlink_fini(&mut self.handle), 0); the
\* library may report a failure of the release
DevLinks_drop ==
    \E h \in hOwners["DevLinks"], rc \in {0, 0 - 1} :
        Release("DevLinks", h, IF rc = 0 THEN "Ok" ELSE "panic")

\* Drop for DevInstMinor: di_dim_fini(self.handle)
DevInstMinor_drop == \E h \in hOwners["DevInstMinor"] : Release("DevInstMinor", h, "Ok")

\* ------------------------------------------------------------------------
\* Node::string_props
\* ------------------------------------------------------------------------
\* U+FFFD REPLACEMENT CHARACTER in UTF-8
REPLACEMENT == <<239, 191, 189>>

\* the length of the sequence a lead byte opens; 0 for a byte that opens none
utf8_char_width(c) ==
    IF c < 128 THEN 1
    ELSE IF c >= 194 /\ c <= 223 THEN 2
    ELSE IF c >= 224 /\ c <= 239 THEN 3
    ELSE IF c >= 240 /\ c <= 244 THEN 4
    ELSE 0

\* the second byte a lead byte of width 3 or 4 admits
SecondOk(c, d) ==
    IF c = 224 THEN d >= 160 /\ d <= 191
    ELSE IF c = 237 THEN d >= 128 /\ d <= 159
    ELSE IF c = 240 THEN d >= 144 /\ d <= 191
    ELSE IF c = 244 THEN d >= 128 /\ d <= 143
    ELSE IsCont(d)

\* The first chunk of a non-empty byte string: a character, or the longest
\* prefix of a character that the next byte breaks.
Utf8Chunk(b) ==
    LET c == b[1]
        w == utf8_char_width(c)
        At(i) == IF i <= Len(b) THEN b[i] ELSE 0
    IN  IF w = 1 THEN [ok |-> TRUE, len |-> 1]
        ELSE IF w = 0 THEN [ok |-> FALSE, len |-> 1]
        ELSE IF w = 2
        THEN (IF IsCont(At(2)) THEN [ok |-> TRUE, len |-> 2] ELSE [ok |-> FALSE, len |-> 1])
        ELSE IF ~SecondOk(c, At(2)) THEN [ok |-> FALSE, len |-> 1]
        ELSE IF ~IsCont(At(3)) THEN [ok |-> FALSE, len |-> 2]
        ELSE IF w = 3 THEN [ok |-> TRUE, len |-> 3]
        ELSE IF ~IsCont(At(4)) THEN [ok |-> FALSE, len |-> 3]
        ELSE [ok |-> TRUE, len |-> 4]

\* CStr::to_string_lossy: every chunk that is no character becomes U+FFFD
RECURSIVE to_string_lossy(_)
to_string_lossy(b) ==
    IF b = <<>> THEN <<>>
    ELSE LET ch == Utf8Chunk(b)
         IN  (IF ch.ok THEN SubSeq(b, 1, ch.len) ELSE REPLACEMENT)
                 \o to_string_lossy(SubSeq(b, ch.len + 1, Len(b)))

\* the names di_prop_name reports
PropNames == { <<97>>, <<255>> }

\* the values of the string properties of a node
PropStrings == { <<120>>, <<121>>, <<255>> }

\* The properties a node may carry: string properties of zero, one and two
\* values, and a property of another kind.
NodeProps ==
    { [name |-> nm, type |-> p.type, n |-> p.n, data |-> p.data] :
        nm \in PropNames,
        p \in { [type |-> DI_PROP_TYPE_STRING, n |-> 1, data |-> <<v>>] : v \in PropStrings }
              \cup { [type |-> DI_PROP_TYPE_STRING, n |-> 0, data |-> <<>>],
                     [type |-> DI_PROP_TYPE_STRING, n |-> 2, data |-> <<<<120>>, <<121>>>>],
                     [type |-> DI_PROP_TYPE_INT, n |-> 1, data |-> <<I32Bits(1)>>] } }

PropLists == UNION { [1..k -> NodeProps] : k \in 0..MaxProps }

\* the Property view of an entry of the list
ViewOf(e) == [type |-> e.type, n |-> e.n, data |-> e.data]

\* An insertion that keeps the entry already there.
InsertIfAbsent(m, k, v) ==
    IF \E e \in m : e.k = k THEN m ELSE m \cup { [k |-> k, v |-> v] }

\* BTreeMap::insert
Insert(m, k, v) == { e \in m : e.k # k } \cup { [k |-> k, v |-> v] }

\* the loop of string_props from position i of the list on, out being the map
\* built so far
RECURSIVE StringPropsFrom(_, _, _)
StringPropsFrom(pl, i, m) ==
    IF i > Len(pl) THEN m
    ELSE IF pl[i].type # DI_PROP_TYPE_STRING THEN StringPropsFrom(pl, i + 1, m)
    ELSE IF pl[i].n # 1 THEN StringPropsFrom(pl, i + 1, m)
    ELSE StringPropsFrom(pl, i + 1,
             Insert(m, to_string_lossy(pl[i].name), to_string_lossy(pl[i].data[1])))

string_props(pl) == StringPropsFrom(pl, 1, {})

StrInit ==
    /\ plist \in PropLists
    /\ spState = "idle"
    /\ smap = {}

StrIdle ==
    /\ plist = <<>>
    /\ spState = "idle"
    /\ smap = {}

Node_string_props ==
    /\ spState = "idle"
    /\ smap' = string_props(plist)
    /\ spState' = "returned"
    /\ UNCHANGED plist
    /\ UNCHANGED <<walkVars, propVars, linkVars, dimVars, handleVars, iterVars>>

\* a Property view of one of the properties of the node
ViewInit ==
    /\ prop \in IF plist = <<>>
                 THEN { [type |-> DI_PROP_TYPE_BOOLEAN, n |-> 0, data |-> <<>>] }
                 ELSE { ViewOf(plist[i]) : i \in 1..Len(plist) }
    /\ dec = "none"
    /\ res = None

\* ------------------------------------------------------------------------
\* DriverWalk, PropertyWalk, MinorWalk
\* ------------------------------------------------------------------------
ListKinds == {"DriverWalk", "PropertyWalk", "MinorWalk"}

\* what an advance leaves in itRet when it panicked
IT_PANIC == 0 - 3

\* The library keeps the elements 1..len in a list; the successor of nil is the
\* first of them.
di_prop_next(len, p) == IF p < len THEN p + 1 ELSE DI_NODE_NIL

di_minor_next(len, m) == IF m < len THEN m + 1 ELSE DI_NODE_NIL

di_drv_first_node(len) == IF len >= 1 THEN 1 ELSE DI_NODE_NIL

di_drv_next_node(len, n) == IF n < len THEN n + 1 ELSE DI_NODE_NIL

\* DriverWalk::next
DriverWalkStep(len, nul, n, f) ==
    IF f THEN [cur |-> n, fin |-> f, ret |-> DI_NODE_NIL]
    ELSE IF n = DI_NODE_NIL /\ nul THEN [cur |-> n, fin |-> f, ret |-> IT_PANIC]
    ELSE LET nx == IF n = DI_NODE_NIL THEN di_drv_first_node(len) ELSE di_drv_next_node(len, n)
         IN  IF nx = DI_NODE_NIL
             THEN [cur |-> nx, fin |-> TRUE, ret |-> DI_NODE_NIL]
             ELSE [cur |-> nx, fin |-> f, ret |-> nx]

\* A walker that keeps no record of having finished.
PropertyWalkStepNoFin(len, p, f) ==
    LET nx == di_prop_next(len, p)
    IN  IF nx = DI_NODE_NIL
        THEN [cur |-> nx, fin |-> f, ret |-> DI_NODE_NIL]
        ELSE [cur |-> nx, fin |-> f, ret |-> nx]

\* PropertyWalk::next
PropertyWalkStep(len, p, f) ==
    IF f THEN [cur |-> p, fin |-> f, ret |-> DI_NODE_NIL]
    ELSE LET nx == di_prop_next(len, p)
         IN  IF nx = DI_NODE_NIL
             THEN [cur |-> nx, fin |-> TRUE, ret |-> DI_NODE_NIL]
             ELSE [cur |-> nx, fin |-> f, ret |-> nx]

\* MinorWalk::next
MinorWalkStep(len, m, f) ==
    IF f THEN [cur |-> m, fin |-> f, ret |-> DI_NODE_NIL]
    ELSE LET nx == di_minor_next(len, m)
         IN  IF nx = DI_NODE_NIL
             THEN [cur |-> nx, fin |-> TRUE, ret |-> DI_NODE_NIL]
             ELSE [cur |-> nx, fin |-> f, ret |-> nx]

\* walk_driver, Node::props, Node::minors: a fresh walker over a list
ItInit ==
    /\ itKind \in ListKinds
    /\ itLen \in 0..MaxList
    /\ itNul \in (IF itKind = "DriverWalk" THEN BOOLEAN ELSE {FALSE})
    /\ itCursor = DI_NODE_NIL
    /\ itFin = FALSE
    /\ itRet = 0 - 1
    /\ itYielded = <<>>
    /\ itAdv = 0

ItIdle ==
    /\ itKind = "PropertyWalk"
    /\ itLen = 0
    /\ itNul = FALSE
    /\ itCursor = DI_NODE_NIL
    /\ itFin = FALSE
    /\ itRet = 0 - 1
    /\ itYielded = <<>>
    /\ itAdv = 0

\* an advance of the walker of kind k that made r of the walker's state
Advance(k, r) ==
    /\ itKind = k
    /\ itRet # IT_PANIC
    /\ itAdv < itLen + 1 + MaxExtraAdvances
    /\ itCursor' = r.cur
    /\ itFin' = r.fin
    /\ itRet' = r.ret
    /\ itYielded' = IF r.ret >= 1 THEN Append(itYielded, r.ret) ELSE itYielded
    /\ itAdv' = itAdv + 1
    /\ UNCHANGED <<itKind, itLen, itNul>>
    /\ UNCHANGED <<walkVars, propVars, linkVars, dimVars, handleVars, strVars>>

DriverWalk_next == Advance("DriverWalk", DriverWalkStep(itLen, itNul, itCursor, itFin))

PropertyWalk_next == Advance("PropertyWalk", PropertyWalkStep(itLen, itCursor, itFin))

MinorWalk_next == Advance("MinorWalk", MinorWalkStep(itLen, itCursor, itFin))

\* ------------------------------------------------------------------------
\* Specifications
\* ------------------------------------------------------------------------
\* a NodeWalk over a snapshot
Init == WalkInit /\ PropIdle /\ LinksIdle /\ DimIdle /\ HandlesIdle /\ StrIdle /\ ItIdle

Next ==
    \/ NodeWalk_next
    \/ NodeWalk_skip_children

Spec == Init /\ [][Next]_vars

\* NodeWalk over a truncated snapshot
InitTrunc == WalkTruncInit /\ PropIdle /\ LinksIdle /\ DimIdle /\ HandlesIdle /\ StrIdle /\ ItIdle

NextTrunc ==
    \/ NodeWalk_next
    \/ NodeWalk_skip_children

SpecTrunc == InitTrunc /\ [][NextTrunc]_vars

\* constructions and drops of the owners of library handles
InitHandles == HandlesInit /\ WalkIdle /\ PropIdle /\ LinksIdle /\ DimIdle /\ StrIdle /\ ItIdle

NextHandles ==
    \/ DevInfo_new
    \/ DevLinks_new
    \/ DevInstMinor_new
    \/ DevInfo_drop
    \/ DevLinks_drop
    \/ DevInstMinor_drop

SpecHandles == InitHandles /\ [][NextHandles]_vars

\* the string-decoding paths on the properties of a node
InitStr == StrInit /\ ViewInit /\ WalkIdle /\ LinksIdle /\ DimIdle /\ HandlesIdle /\ ItIdle

NextStr ==
    \/ Node_string_props
    \/ Property_to_str
    \/ Property_fmt

SpecStr == InitStr /\ [][NextStr]_vars

\* the four walkers: a NodeWalk over a snapshot, or one of the list walkers
InitIter ==
    /\ \/ WalkInit /\ ItIdle
       \/ WalkIdle /\ ItInit
    /\ PropIdle /\ LinksIdle /\ DimIdle /\ HandlesIdle /\ StrIdle

NextIter ==
    \/ NodeWalk_next
    \/ NodeWalk_skip_children
    \/ DriverWalk_next
    \/ PropertyWalk_next
    \/ MinorWalk_next

SpecIter == InitIter /\ [][NextIter]_vars

\* the decoders applied to a property
InitProp == PropInit /\ WalkIdle /\ LinksIdle /\ DimIdle /\ HandlesIdle /\ StrIdle /\ ItIdle

NextProp ==
    \/ Property_as_i32
    \/ Property_as_i64
    \/ Property_as_cstr
    \/ Property_to_str
    \/ Property_as_bytes
    \/ Property_fmt

SpecProp == InitProp /\ [][NextProp]_vars

\* one call of links_for_path, with the foreign walk and its callbacks
InitLinks == LinksInit /\ WalkIdle /\ PropIdle /\ DimIdle /\ HandlesIdle /\ StrIdle /\ ItIdle

NextLinks ==
    \/ links_for_path_alloc
    \/ links_for_path_walk
    \/ di_devlink_walk_present
    \/ devlink_accumulate_enter
    \/ devlink_accumulate_push
    \/ di_devlink_walk_return
    \/ links_for_path_reclaim
    \/ links_for_path_return

SpecLinks == InitLinks /\ [][NextLinks]_vars

\* one call of lookup_disk_name
InitDim == DimInit /\ WalkIdle /\ PropIdle /\ LinksIdle /\ HandlesIdle /\ StrIdle /\ ItIdle

NextDim == DevInstMinor_lookup_disk_name

SpecDim == InitDim /\ [][NextDim]_vars

\* ------------------------------------------------------------------------
\* Properties of NodeWalk
\* ------------------------------------------------------------------------
Range(s) == { s[i] : i \in 1..Len(s) }

Occurrences(s, x) == Cardinality({ i \in 1..Len(s) : s[i] = x })

RECURSIVE IsAncestor(_, _, _)
\* a is a proper ancestor of d
IsAncestor(t, a, d) ==
    /\ t.par[d] # DI_NODE_NIL
    /\ (t.par[d] = a \/ IsAncestor(t, a, t.par[d]))

Ancestors(t, d) == { a \in Nodes(t) : IsAncestor(t, a, d) }
Descendants(t, a) == { d \in Nodes(t) : IsAncestor(t, a, d) }

RECURSIVE LinkReachable(_, _)
\* the nodes reachable from n through first-child / next-sibling links
LinkReachable(t, n) ==
    IF n = DI_NODE_NIL THEN {}
    ELSE {n} \cup LinkReachable(t, di_child_node(t, n))
             \cup LinkReachable(t, di_sibling_node(t, n))

RECURSIVE LaterSiblings(_, _)
LaterSiblings(t, n) ==
    LET sib == di_sibling_node(t, n)
    IN  IF sib = DI_NODE_NIL THEN {} ELSE {sib} \cup LaterSiblings(t, sib)

NeverSkipped == skipAt = {} /\ skipIdle = {}

\* C1: a walk on which skip_children is never called yields the root first,
\* never yields a node twice, yields every node only after all its
\* ancestors, and by the time it signals finished has yielded every node
\* reachable from the root through first-child/next-sibling links exactly once.
C1_PreOrderWithoutPruning ==
    NeverSkipped =>
        /\ (nadv >= 1 => (Len(yielded) >= 1 /\ yielded[1] = 1))
        /\ \A i \in 1..Len(yielded) :
              /\ Occurrences(yielded, yielded[i]) = 1
              /\ \A a \in Ancestors(tree, yielded[i]) :
                    \E j \in 1..(i - 1) : yielded[j] = a
        /\ (fin => \A m \in LinkReachable(tree, 1) : Occurrences(yielded, m) = 1)

\* a finished unpruned walk over a tree in which the climb passes two levels
C1_Witness ==
    /\ fin
    /\ NeverSkipped
    /\ tree.n = 5
    /\ tree.par[3] = 2 /\ tree.par[4] = 3 /\ tree.par[5] = 1
    /\ yielded = <<1, 2, 3, 4, 5>>

\* the nodes of the subtree of s that no pruning request inside it cuts off
Unpruned(t, s) ==
    { d \in {s} \cup Descendants(t, s) :
        \A a \in ({s} \cup Descendants(t, s)) \cap Ancestors(t, d) : a \notin skipAt }

\* C2: when skip_children is called right after N is yielded, no descendant
\* of N is ever yielded, and a finished walk has yielded every later sibling
\* of N and of each ancestor of N together with their unpruned subtrees.
C2_PruneSubtreeOnly ==
    \A N \in skipAt :
        /\ \A i \in 1..Len(yielded) : ~IsAncestor(tree, N, yielded[i])
        /\ fin =>
              \A a \in {N} \cup Ancestors(tree, N) :
                \A s \in LaterSiblings(tree, a) :
                  Unpruned(tree, s) \subseteq Range(yielded)

C2_Witness ==
    /\ fin
    /\ \E N \in skipAt :
          /\ Descendants(tree, N) # {}
          /\ \E s \in LaterSiblings(tree, N) :
                Descendants(tree, s) # {} /\ Descendants(tree, s) \subseteq Range(yielded)

\* C3: a pruning request is consumed by the very next advance (the flag is
\* clear after it) and prunes nothing but the children of the node that was
\* the most recently yielded one when skip_children was called.
C3_SkipConsumedByNextAdvance ==
    /\ (lastOp = "next" => ~skip_children)
    /\ (fin => \A m \in Nodes(tree) :
                  (\A a \in Ancestors(tree, m) : a \notin skipAt) => m \in Range(yielded))

\* ------------------------------------------------------------------------
\* Properties of the Property decoders
\* ------------------------------------------------------------------------
\* the kind each decoder is for
KindOf(d) ==
    CASE d = "as_i32" -> "Int32"
      [] d = "as_i64" -> "Int64"
      [] d = "as_cstr" -> "String"
      [] d = "to_str" -> "String"
      [] d = "as_bytes" -> "Byte"
      [] OTHER -> "none"

RECURSIVE LowBitsValue(_, _)
\* the number made of the bits b[1..k]
LowBitsValue(b, k) == IF k = 0 THEN 0 ELSE b[k] * (2 ^ (k - 1)) + LowBitsValue(b, k - 1)

\* the integer a 32-bit two's complement pattern stands for
I32Value(b) == LowBitsValue(b, 31) + (IF b[32] = 1 THEN I32_MIN ELSE 0)

\* a 64-bit pattern stands for the integer v of the i32 range
I64Is(b, v) ==
    /\ \A i \in 33..64 : b[i] = b[32]
    /\ I32Value(SubSeq(b, 1, 32)) = v

\* C4 as stated: on a property whose value_type() is Int32, Int64, String or
\* Byte the decoder of the matching kind returns a value, whatever element
\* count the tree reports.
C4_MatchingDecoderAlwaysSucceeds ==
    (dec # "none" /\ KindOf(dec) = value_type(prop)) => res.tag = "Some"

\* C4 amended: the decoder of the matching kind returns the first element
\* (as_bytes: all the bytes) when the tree reports at least one element and,
\* for to_str, the string is valid UTF-8; as_i32, as_i64, as_cstr and to_str
\* return absent for a count below one, to_str also for a string that is not
\* valid UTF-8, as_bytes for a negative count.  as_i64 on an Int32 property
\* returns a value exactly when as_i32 does, and then the same integer.
C4_MatchingDecoderSucceedsWithElements ==
    /\ (dec # "none" /\ KindOf(dec) = value_type(prop)) =>
          /\ (prop.n >= 1 /\ dec \in {"as_i32", "as_i64", "as_cstr"}) =>
                res = Some(prop.data[1])
          /\ (prop.n >= 1 /\ dec = "to_str") =>
                res = IF Utf8Valid(prop.data[1]) THEN Some(prop.data[1]) ELSE None
          /\ (prop.n >= 1 /\ dec = "as_bytes") =>
                (res.tag = "Some" /\ Len(res.v) = prop.n
                   /\ \A i \in 1..prop.n : res.v[i] = prop.data[i][1])
          /\ (prop.n < 1 /\ dec # "as_bytes") => res = None
          /\ (prop.n < 0 /\ dec = "as_bytes") => res = None
    /\ (dec = "as_i64" /\ value_type(prop) = "Int32") =>
          /\ res.tag = as_i32(prop).tag
          /\ res.tag \in {"Some", "None"}
          /\ res.tag = "Some" <=> prop.n >= 1
          /\ res.tag = "Some" => I64Is(res.v, I32Value(as_i32(prop).v))

\* as_i64 has widened a negative Int32 value
C4_Witness ==
    /\ dec = "as_i64"
    /\ value_type(prop) = "Int32"
    /\ prop.n = 2
    /\ res.tag = "Some"
    /\ I32Value(prop.data[1]) = I32_MIN
    /\ res.v[64] = 1

\* C5: a decoder whose kind differs from the kind the tree reports for the
\* property (Int32 through as_i64 excepted) returns absent, for every raw kind
\* code, and never panics.
C5_MismatchedDecoderReturnsAbsent ==
    (/\ KindOf(dec) # "none"
     /\ KindOf(dec) # PropType_try_from(prop.type)
     /\ ~(dec = "as_i64" /\ prop.type = DI_PROP_TYPE_INT)) => res = None

\* ------------------------------------------------------------------------
\* Properties of links_for_path
\* ------------------------------------------------------------------------
Owners == Cardinality(boxes) + (IF rawOut THEN 1 ELSE 0)

Decodes(l) ==
    /\ l.path # NULL
    /\ l.content # NULL
    /\ l.ltype \in {DI_PRIMARY_LINK, DI_SECONDARY_LINK}

\* one DevLink per link of ls that decodes, in order
Expected(ls) ==
    LET good == SelectSeq(ls, Decodes)
    IN  [i \in 1..Len(good) |->
            [path |-> good[i].path, content |-> good[i].content,
             linktype |-> IF good[i].ltype = DI_PRIMARY_LINK THEN "Primary" ELSE "Secondary"]]

Presented == SubSeq(links, 1, cur)

\* C7: when the walk reports success, links_for_path returns Ok with one
\* DevLink per presented link whose path, target and kind decode, in callback
\* order (the empty collection when there is none); the callback answers
\* DI_WALK_CONTINUE for every link, and between callbacks the accumulator
\* holds exactly the decodable links presented so far.
C7_OkHoldsDecodableLinksInOrder ==
    /\ \A i \in 1..Len(cbRets) : cbRets[i] = DI_WALK_CONTINUE
    /\ (lpc \in {"walk", "returned", "reclaimed", "done"} =>
          (Len(cbRets) = cur /\ out = Expected(Presented)))
    /\ ((lpc = "done" /\ walkRet = 0) =>
          (cur = Len(links) /\ lresult = [tag |-> "Ok", v |-> Expected(links)]))
    /\ ((lpc = "done" /\ walkRet = 0 /\ links = <<>>) =>
          lresult = [tag |-> "Ok", v |-> <<>>])

\* a successful walk over a good link, a link that does not decode, a good link
C7_Witness ==
    /\ lpc = "done"
    /\ walkRet = 0
    /\ Len(links) = 3
    /\ Decodes(links[1]) /\ ~Decodes(links[2]) /\ Decodes(links[3])
    /\ links[1] # links[3]
    /\ Len(lresult.v) = 2

UnknownKind(l) == l.ltype \notin {DI_PRIMARY_LINK, DI_SECONDARY_LINK}

C9_FailureDiscardsLinks ==
    (lpc = "done" /\ walkRet # 0) => lresult = [tag |-> "Err", v |-> <<>>]

\* the walk failed after two links had been pushed
C9_Witness ==
    /\ lpc = "done"
    /\ walkRet # 0
    /\ Len(out) = 2
    /\ lresult.tag = "Err"

\* ------------------------------------------------------------------------
\* Properties of lookup_disk_name
\* ------------------------------------------------------------------------
\* C10: the candidates are queried in the order "wd", "a" and none after the
\* one used; a result made from "wd" is the path after "/dev/dsk/", a result
\* made from "a" is that with a trailing "s0" removed.
C10_SliceStrippedOnlyForLegacyMinor ==
    dimState = "returned" =>
        /\ dimAsked = SubSeq(Candidates, 1, Len(dimAsked))
        /\ (dimUsed # "none" => (dimRes.tag = "Some" /\ dimAsked[Len(dimAsked)] = dimUsed))
        /\ (dimUsed = "wd" => dimRes.v = strip_prefix(dimdb["wd"], DEV_DSK))
        /\ (dimUsed = "a" =>
              LET nam == strip_prefix(dimdb["a"], DEV_DSK)
              IN  dimRes.v = IF HasSuffix(nam, S0) THEN strip_suffix(nam, S0) ELSE nam)

Resolves(m) == dimdb[m] # NO_PATH

Strippable(m) == Utf8Valid(dimdb[m]) /\ HasPrefix(dimdb[m], DEV_DSK)

\* C11: lookup_disk_name returns absent, and neither fails nor panics, when
\* no candidate minor resolves, and returns absent when a candidate it
\* queried resolves to a path from which "/dev/dsk/" cannot be stripped.
C11_AbsentOnMissOrMalformedPath ==
    dimState = "returned" =>
        /\ dimRes.tag # "panic"
        /\ ((\A m \in {"wd", "a"} : ~Resolves(m)) => dimRes = None)
        /\ ((\E i \in 1..Len(dimAsked) :
                Resolves(dimAsked[i]) /\ ~Strippable(dimAsked[i])) => dimRes = None)

\* C13: each advance of NodeWalk yields one node or signals the end, and an
\* advance during which the tree reported a failure (di_parent_node giving
\* nil for a reason other than having reached the root) returns an error for
\* that step, does not mark the walk finished, and keeps the cursor.
C13_TreeFailureIsReported ==
    lastOp = "next" =>
        /\ ret \in Nodes(tree) \cup {DI_NODE_NIL, RET_ERR}
        /\ oserr => (ret = RET_ERR /\ ~fin /\ node # DI_NODE_NIL)

\* C18: a NodeWalk that is advanced repeatedly has signalled the end by its
\* (number of nodes + 1)-th advance, whatever skip_children calls were made,
\* and yields no node twice.
C18_FinishedWithinNodesPlusOne ==
    /\ (nadv >= tree.n + 1 => fin)
    /\ (~fin => nadv = Len(yielded))
    /\ \A i, j \in 1..Len(yielded) : yielded[i] = yielded[j] => i = j

C18_Witness ==
    /\ tree.n = MaxNodes
    /\ fin
    /\ nadv = tree.n + 1
    /\ Len(yielded) = tree.n
    /\ skipAt # {}
    /\ \E x \in Nodes(tree) : tree.par[x] >= 2

\* ------------------------------------------------------------------------
\* Properties of the owners of library handles
\* ------------------------------------------------------------------------
TimesReleased(k, h) == Cardinality({ i \in 1..Len(hReleased[k]) : hReleased[k][i] = h })

\* C12: for DevInfo, DevLinks and DevInstMinor, over any sequence of
\* constructions and drops, the release calls never outnumber the successful
\* acquisitions, a handle is released once when its owner is dropped and not
\* before, and a failed construction returns an error, creates no owner and
\* passes no nil handle to the release call.
C12_HandleReleasedOncePerAcquisition ==
    \A k \in Kinds :
        /\ Len(hReleased[k]) <= Cardinality(hIssued[k])
        /\ hOwners[k] \subseteq hIssued[k]
        /\ \A h \in hIssued[k] : TimesReleased(k, h) = (IF h \in hOwners[k] THEN 0 ELSE 1)
        /\ \A i \in 1..Len(hReleased[k]) : hReleased[k][i] \in hIssued[k]
        /\ (hLast.op = "new" /\ hLast.kind = k) =>
               /\ (hLast.lib = "nil") = (hLast.tag = "Err")
               /\ (hLast.lib = "handle") = (hLast.tag = "Ok")
               /\ (hLast.tag = "Ok") = (hCalls[k] \in hIssued[k])

C12_Witness ==
    /\ \A k \in Kinds : /\ hCalls[k] = MaxHandles
                        /\ Cardinality(hIssued[k]) = 1
                        /\ Len(hReleased[k]) = 1
    /\ hLast.op = "drop"

\* ------------------------------------------------------------------------
\* Properties of string_props and of the string-decoding paths
\* ------------------------------------------------------------------------
StringTyped == { i \in 1..Len(plist) : plist[i].type = DI_PROP_TYPE_STRING }

SingleString == { i \in StringTyped : plist[i].n = 1 }

KeyOf(i) == to_string_lossy(plist[i].name)

SetMax(S) == CHOOSE x \in S : \A y \in S : y <= x

\* the map whose keys are those of the properties in S, each with the value
\* of the last property of S under that key
LastWins(S, m) ==
    /\ { e.k : e \in m } = { KeyOf(i) : i \in S }
    /\ \A e \in m, f \in m : e.k = f.k => e = f
    /\ \A e \in m :
           LET last == SetMax({ i \in S : KeyOf(i) = e.k })
           IN  plist[last].n >= 1 => e.v = to_string_lossy(plist[last].data[1])

\* C14 as stated: the map string_props returns has one key for every
\* string-typed property, whatever number of string values it carries, and
\* none for a property of another kind; under a shared name the value is that
\* of the last property in the native order.
C14_KeyForEveryStringProperty == spState = "returned" => LastWins(StringTyped, smap)

\* C14 as amended: the map has one key for every string-typed property that
\* carries exactly one string value and none for any other property; under a
\* shared name the value is that of the last such property.
C14_KeyForEverySingleValuedStringProperty ==
    spState = "returned" => LastWins(SingleString, smap)

C14_Witness ==
    /\ spState = "returned"
    /\ \E i \in SingleString, j \in SingleString, k \in StringTyped :
           /\ i < j
           /\ KeyOf(i) = KeyOf(j)
           /\ plist[i].data # plist[j].data
           /\ plist[k].n = 2
    /\ Cardinality(smap) = 1

InvalidText(p) == p.type = DI_PROP_TYPE_STRING /\ p.n >= 1 /\ ~Utf8Valid(p.data[1])

\* C15: every string-decoding path (Property::to_str, string_props, Display
\* of a string property) returns "no value" for text that is not valid: it
\* never panics and never hands out altered or replacement text.
C15_InvalidTextGivesNoValue ==
    /\ (dec \in {"to_str", "fmt"} /\ InvalidText(prop)) => res = None
    /\ spState = "returned" =>
           \A e \in smap : \E i \in SingleString :
               /\ Utf8Valid(plist[i].name) /\ Utf8Valid(plist[i].data[1])
               /\ e.k = plist[i].name /\ e.v = plist[i].data[1]

\* ------------------------------------------------------------------------
\* Properties of the walkers once finished
\* ------------------------------------------------------------------------
\* C17: once NodeWalk, DriverWalk, PropertyWalk or MinorWalk has signalled
\* the end, every later advance signals the end again and yields nothing: the
\* walker stays finished and does not restart although its cursor is back at
\* nil, and a skip_children call on a finished NodeWalk changes nothing of
\* what it yields.
C17_FinishedStaysFinished ==
    [][/\ ret = DI_NODE_NIL => /\ fin /\ fin'
                               /\ yielded' = yielded
                               /\ (nadv' # nadv => ret' = DI_NODE_NIL)
       /\ itRet = DI_NODE_NIL => /\ itFin /\ itFin'
                                 /\ itYielded' = itYielded
                                 /\ (itAdv' # itAdv => itRet' = DI_NODE_NIL)]_vars

C17_Witness ==
    /\ fin /\ node = DI_NODE_NIL
    /\ "finished" \in skipIdle
    /\ lastOp = "next"
    /\ nadv >= Len(yielded) + 2
    /\ itFin /\ itCursor = DI_NODE_NIL
    /\ itLen >= 1
    /\ Len(itYielded) = itLen
    /\ itAdv >= itLen + 2

====
